---- MODULE Spec2Model ----
(***************************************************************************)
(* ShopEasy product-catalog backend (src/main.py): the create, list and    *)
(* seed endpoints over the "product" collection of a document store.       *)
(*                                                                         *)
(* The handlers are translated from src/main.py.  The document-store       *)
(* accessor they import (database.py: db, create_document, get_documents)  *)
(* and the store's evaluation of a filter follow the specification's       *)
(* description of the Document Store Accessor and of the filter.           *)
(***************************************************************************)
EXTENDS Integers, Sequences, FiniteSets, TLC

(***************************************************************************)
(* Bounds of the exploration.                                              *)
(***************************************************************************)
\* Number of HTTP clients whose requests may overlap.
NumClients == 2
\* Number of documents clients add through create_product.
MaxCreated == 1

Clients == 1..NumClients

(***************************************************************************)
(* Python values.                                                          *)
(***************************************************************************)
\* Python's None.
None == [py |-> "None"]

\* bson.ObjectId, abstracted to the counter the store generated it from.
ObjectId(n) == [py |-> "ObjectId", value |-> n]

\* isinstance(v, ObjectId), for the values d.get("_id") can yield.
IsObjectId(v) == v.py = "ObjectId"

\* An Optional[str] parameter: <<>> is None, <<s>> is the string s.
Absent == <<>>
Some(s) == <<s>>

\* Truthiness of an Optional[str]: None and "" are falsy.
Truthy(o) == o # Absent /\ o[1] # ""

\* dict.get(key): the value, or None when the key is absent.
Get(d, key) == IF key \in DOMAIN d THEN d[key] ELSE None

HexDigit == <<"0", "1", "2", "3", "4", "5", "6", "7",
              "8", "9", "a", "b", "c", "d", "e", "f">>

\* The hexadecimal digits of n, most significant first, at least `width` long.
RECURSIVE Hex(_, _)
Hex(n, width) ==
    IF n < 16 /\ width <= 1
    THEN HexDigit[n + 1]
    ELSE Hex(n \div 16, width - 1) \o HexDigit[(n % 16) + 1]

\* str(ObjectId): the identifier's 24 hexadecimal digits.
StrObjectId(oid) == Hex(oid.value, 24)

\* An exception object: its class and its args tuple.
Exception(cls, args) == [py |-> "Exception", cls |-> cls, args |-> args]

\* str(e) of an exception: "" without args, the argument when there is one.
StrException(e) ==
    IF Len(e.args) = 0 THEN "" ELSE e.args[1]

(***************************************************************************)
(* Text.  A string is an atomic value; Chars gives its characters.         *)
(***************************************************************************)
\* The characters of every string whose text is looked into.
CharsOf ==
    ("Wireless Noise-Canceling Headphones" :>
        <<"W", "i", "r", "e", "l", "e", "s", "s", " ", "N", "o", "i", "s", "e",
          "-", "C", "a", "n", "c", "e", "l", "i", "n", "g", " ", "H", "e", "a",
          "d", "p", "h", "o", "n", "e", "s">>)
    @@ ("Premium over-ear headphones with 30h battery and ANC." :>
        <<"P", "r", "e", "m", "i", "u", "m", " ", "o", "v", "e", "r", "-", "e",
          "a", "r", " ", "h", "e", "a", "d", "p", "h", "o", "n", "e", "s", " ",
          "w", "i", "t", "h", " ", "3", "0", "h", " ", "b", "a", "t", "t", "e",
          "r", "y", " ", "a", "n", "d", " ", "A", "N", "C", ".">>)
    @@ ("Smart Fitness Watch" :>
        <<"S", "m", "a", "r", "t", " ", "F", "i", "t", "n", "e", "s", "s", " ",
          "W", "a", "t", "c", "h">>)
    @@ ("Track health metrics with AMOLED display and GPS." :>
        <<"T", "r", "a", "c", "k", " ", "h", "e", "a", "l", "t", "h", " ", "m",
          "e", "t", "r", "i", "c", "s", " ", "w", "i", "t", "h", " ", "A", "M",
          "O", "L", "E", "D", " ", "d", "i", "s", "p", "l", "a", "y", " ", "a",
          "n", "d", " ", "G", "P", "S", ".">>)
    @@ ("Ergonomic Office Chair" :>
        <<"E", "r", "g", "o", "n", "o", "m", "i", "c", " ", "O", "f", "f", "i",
          "c", "e", " ", "C", "h", "a", "i", "r">>)
    @@ ("Adjustable lumbar support, breathable mesh, smooth wheels." :>
        <<"A", "d", "j", "u", "s", "t", "a", "b", "l", "e", " ", "l", "u", "m",
          "b", "a", "r", " ", "s", "u", "p", "p", "o", "r", "t", ",", " ", "b",
          "r", "e", "a", "t", "h", "a", "b", "l", "e", " ", "m", "e", "s", "h",
          ",", " ", "s", "m", "o", "o", "t", "h", " ", "w", "h", "e", "e", "l",
          "s", ".">>)
    @@ ("Stainless Steel Water Bottle" :>
        <<"S", "t", "a", "i", "n", "l", "e", "s", "s", " ", "S", "t", "e", "e",
          "l", " ", "W", "a", "t", "e", "r", " ", "B", "o", "t", "t", "l", "e">>)
    @@ ("Insulated 1L bottle keeps drinks cold for 24h." :>
        <<"I", "n", "s", "u", "l", "a", "t", "e", "d", " ", "1", "L", " ", "b",
          "o", "t", "t", "l", "e", " ", "k", "e", "e", "p", "s", " ", "d", "r",
          "i", "n", "k", "s", " ", "c", "o", "l", "d", " ", "f", "o", "r", " ",
          "2", "4", "h", ".">>)
    @@ ("GPS Watch Band" :>
        <<"G", "P", "S", " ", "W", "a", "t", "c", "h", " ", "B", "a", "n", "d">>)
    @@ ("Strap for a smart watch." :>
        <<"S", "t", "r", "a", "p", " ", "f", "o", "r", " ", "a", " ", "s", "m",
          "a", "r", "t", " ", "w", "a", "t", "c", "h", ".">>)
    @@ ("watch" :>
        <<"w", "a", "t", "c", "h">>)
    @@ ("w.tch" :>
        <<"w", ".", "t", "c", "h">>)
    @@ ("(" :>
        <<"(">>)
    @@ ("" :>
        <<>>)

Chars(s) == CharsOf[s]

\* The lower-case form of each upper-case letter.
LowerOf ==
    ("A" :> "a") @@ ("B" :> "b") @@ ("C" :> "c") @@ ("D" :> "d") @@ ("E" :> "e") @@ ("F" :> "f")
    @@ ("G" :> "g") @@ ("H" :> "h") @@ ("I" :> "i") @@ ("J" :> "j") @@ ("K" :> "k") @@ ("L" :> "l")
    @@ ("M" :> "m") @@ ("N" :> "n") @@ ("O" :> "o") @@ ("P" :> "p") @@ ("Q" :> "q") @@ ("R" :> "r")
    @@ ("S" :> "s") @@ ("T" :> "t") @@ ("U" :> "u") @@ ("V" :> "v") @@ ("W" :> "w") @@ ("X" :> "x")
    @@ ("Y" :> "y") @@ ("Z" :> "z")

UpperCase == DOMAIN LowerOf

\* One character with its case folded.
Lower(ch) == IF ch \in UpperCase THEN LowerOf[ch] ELSE ch

\* A sequence of characters with every character's case folded.
LowerSeq(chars) == [i \in DOMAIN chars |-> Lower(chars[i])]

(***************************************************************************)
(* Products.                                                               *)
(***************************************************************************)
\* A Product as a dict.  price is in hundredths, rating in tenths.
Product(title, description, price, category, in_stock, brand, image_url, rating, reviews_count) ==
    [title |-> title, description |-> description, price |-> price,
     category |-> category, in_stock |-> in_stock, brand |-> brand,
     image_url |-> image_url, rating |-> rating,
     reviews_count |-> reviews_count]

\* The fixed demo dataset of seed_products.
demo_items ==
    << Product("Wireless Noise-Canceling Headphones",
               "Premium over-ear headphones with 30h battery and ANC.",
               19999, "Electronics", TRUE, "SoundMax",
               "https://images.unsplash.com/photo-1518443751420-7e1b34b09b91?q=80&w=1200&auto=format&fit=crop",
               46, 321),
       Product("Smart Fitness Watch",
               "Track health metrics with AMOLED display and GPS.",
               12900, "Wearables", TRUE, "FitPulse",
               "https://images.unsplash.com/photo-1511732351157-1865efcb7b7b?q=80&w=1200&auto=format&fit=crop",
               44, 189),
       Product("Ergonomic Office Chair",
               "Adjustable lumbar support, breathable mesh, smooth wheels.",
               24950, "Furniture", TRUE, "ErgoSeat",
               "https://images.unsplash.com/photo-1503602642458-232111445657?q=80&w=1200&auto=format&fit=crop",
               45, 97),
       Product("Stainless Steel Water Bottle",
               "Insulated 1L bottle keeps drinks cold for 24h.",
               2499, "Outdoors", TRUE, "AquaPro",
               "https://images.unsplash.com/photo-1526405078732-81b3b1b12f39?q=80&w=1200&auto=format&fit=crop",
               48, 512) >>

\* Request bodies a client posts to create_product (validated Products).
ProductCreate ==
    { Product("GPS Watch Band", "Strap for a smart watch.", 1500,
              "Electronics", TRUE, "FitPulse",
              "https://example.com/band.jpg", 40, 3) }

\* Query parameters a client sends to list_products.
Categories == {Absent, Some(""), Some("Electronics"), Some("electronics")}
Queries == {Absent, Some(""), Some("watch"), Some("w.tch"), Some("(")}
\* limit: int = 50
DefaultLimit == 50
Limits == {1, DefaultLimit}

(***************************************************************************)
(* State.                                                                  *)
(***************************************************************************)
VARIABLES
    db,           \* the store handle of database.py: Database, or None
    store,        \* the documents of collection "product", in insertion order
    pc,           \* pc[c]: "idle", or "seeding" inside seed_products' loop
    idx,          \* idx[c]: demo items the running seed_products has inserted
    request,      \* the request whose handler returned last
    filter_dict,  \* the filter_dict that handler built (list_products)
    caught,       \* the exception that handler caught, or None
    response      \* the HTTP outcome that handler produced

vars == <<db, store, pc, idx, request, filter_dict, caught, response>>

(***************************************************************************)
(* The document store and its accessor.                                    *)
(***************************************************************************)
\* The connected store handle.
Database == [py |-> "Database"]

DbNotAvailable == Exception("Exception", <<"Database not available">>)
InvalidRegex ==
    Exception("OperationFailure", <<"Regular expression is invalid">>)

\* What a store call can raise while the store is connected.
StoreErrors ==
    { Exception("ServerSelectionTimeoutError", <<"connection refused">>) }

\* The exceptions an accessor call can raise in the current state.
AccessorRaises == IF db = None THEN {DbNotAvailable} ELSE StoreErrors

\* The identifier the store generates for its next document.
NewObjectId == ObjectId(Len(store) + 1)

\* The stored form of a record: its fields and the generated "_id".
Stored(data, oid) == ("_id" :> oid) @@ data

\* A pattern is malformed when it opens a group it never closes.
ValidPattern(p) ==
    \A i \in 1..Len(p) : p[i] = "(" => \E j \in (i + 1)..Len(p) : p[j] = ")"

\* One pattern character against one text character; "." matches any.
CharMatches(pch, tch) == pch = "." \/ pch = tch

\* $regex: the pattern matches somewhere in the text (unanchored search);
\* under option "i" the case of letters is ignored.
RegexSearch(pattern, options, text) ==
    LET ignoreCase == options = "i"
        p == IF ignoreCase THEN LowerSeq(Chars(pattern)) ELSE Chars(pattern)
        t == IF ignoreCase THEN LowerSeq(Chars(text)) ELSE Chars(text)
    IN  \E s \in 0..(Len(t) - Len(p)) :
            \A j \in 1..Len(p) : CharMatches(p[j], t[s + j])

\* One field condition: {"$eq": v} (a bare value v in the filter), or
\* {"$regex": p} with its optional "$options".
MatchCondition(cond, value) ==
    IF "$regex" \in DOMAIN cond
    THEN RegexSearch(cond["$regex"],
                     IF "$options" \in DOMAIN cond THEN cond["$options"] ELSE "",
                     value)
    ELSE value = cond["$eq"]

\* A clause {field: condition, ...}: every field condition holds.
MatchClause(clause, doc) ==
    \A field \in DOMAIN clause : MatchCondition(clause[field], doc[field])

\* A filter: every top-level key holds; "$or" holds when some clause does.
MatchFilter(f, doc) ==
    \A key \in DOMAIN f :
        IF key = "$or"
        THEN \E i \in DOMAIN f[key] : MatchClause(f[key][i], doc)
        ELSE MatchCondition(f[key], doc[key])

\* The store rejects a filter holding a malformed pattern.
FilterValid(f) ==
    "$or" \in DOMAIN f =>
        \A i \in DOMAIN f["$or"] : \A field \in DOMAIN f["$or"][i] :
            LET cond == f["$or"][i][field]
            IN  "$regex" \in DOMAIN cond => ValidPattern(Chars(cond["$regex"]))

RECURSIVE Select(_, _)
Select(docs, f) ==
    IF docs = <<>> THEN <<>>
    ELSE IF MatchFilter(f, Head(docs))
         THEN <<Head(docs)>> \o Select(Tail(docs), f)
         ELSE Select(Tail(docs), f)

\* cursor.limit(n): at most n documents.
Limit(docs, n) == SubSeq(docs, 1, IF Len(docs) < n THEN Len(docs) ELSE n)

\* get_documents(collection, filter, limit) when it returns.
get_documents(f, limit) == Limit(Select(store, f), limit)

\* What get_documents can raise for a filter.
get_documents_raises(f) ==
    IF db # None /\ ~FilterValid(f)
    THEN AccessorRaises \cup {InvalidRegex}
    ELSE AccessorRaises

\* create_document(collection, data) when it returns: the collection with
\* the new document, and the new identifier as a string.
create_document(data) ==
    [store |-> Append(store, Stored(data, NewObjectId)),
     inserted_id |-> StrObjectId(NewObjectId)]

\* db[collection].count_documents({}).
count_documents == Len(store)

(***************************************************************************)
(* The endpoints of src/main.py.                                           *)
(***************************************************************************)
\* A handler's normal return: HTTP 200 with the returned dict as body.
Ok(body) == [status |-> 200, body |-> body]

\* raise HTTPException(status_code, detail).
HTTPException(status_code, detail) ==
    [status |-> status_code, body |-> [detail |-> detail]]

\* Variant: the handler hides the exception's message.
ExceptHandlerGeneric(e) == HTTPException(500, "Internal Server Error")

\* except Exception as e: raise HTTPException(status_code=500, detail=str(e))
ExceptHandler(e) == HTTPException(500, StrException(e))

\* The handler returns: what it was asked, built, caught and answered.
Finish(req, f, e, resp) ==
    /\ request' = req
    /\ filter_dict' = f
    /\ caught' = e
    /\ response' = resp

\* Variant: the patterns lack "$options": "i".
BuildFilterCaseSensitive(category, q) ==
    LET f1 == IF Truthy(category)
              THEN ("category" :> ("$eq" :> category[1]))
              ELSE <<>>
    IN  IF Truthy(q)
        THEN ("$or" :> << ("title" :> ("$regex" :> q[1])),
                          ("description" :> ("$regex" :> q[1])) >>) @@ f1
        ELSE f1

\* Variant: the text search replaces filter_dict instead of adding to it.
BuildFilterOverwrites(category, q) ==
    IF Truthy(q)
    THEN ("$or" :>
            << ("title" :> (("$regex" :> q[1]) @@ ("$options" :> "i"))),
               ("description" :> (("$regex" :> q[1]) @@ ("$options" :> "i"))) >>)
    ELSE IF Truthy(category)
         THEN ("category" :> ("$eq" :> category[1]))
         ELSE <<>>

\* Variant: `if category is not None` in place of `if category`.
BuildFilterNotNone(category, q) ==
    LET f1 == IF category # Absent
              THEN ("category" :> ("$eq" :> category[1]))
              ELSE <<>>
    IN  IF Truthy(q)
        THEN ("$or" :>
                << ("title" :> (("$regex" :> q[1]) @@ ("$options" :> "i"))),
                   ("description" :>
                       (("$regex" :> q[1]) @@ ("$options" :> "i"))) >>) @@ f1
        ELSE f1

\* filter_dict of list_products: a category condition when category is
\* truthy, an "$or" of two case-insensitive patterns when q is truthy.
BuildFilter(category, q) ==
    LET f0 == <<>>
        f1 == IF Truthy(category)
              THEN ("category" :> ("$eq" :> category[1])) @@ f0
              ELSE f0
        f2 == IF Truthy(q)
              THEN ("$or" :>
                      << ("title" :> (("$regex" :> q[1]) @@ ("$options" :> "i"))),
                         ("description" :>
                             (("$regex" :> q[1]) @@ ("$options" :> "i"))) >>)
                   @@ f1
              ELSE f1
    IN  f2

\* Variant: d["id"] = str(d["_id"]), the reserved key left in place.
NormalizeDocKeepsId(d) ==
    IF IsObjectId(Get(d, "_id"))
    THEN [k \in DOMAIN d \cup {"id"} |->
             IF k = "id" THEN StrObjectId(d["_id"]) ELSE d[k]]
    ELSE d

\* Variant: d["id"] = str(d.pop("_id", None)) without the isinstance test.
NormalizeDocUnguarded(d) ==
    [k \in (DOMAIN d \ {"_id"}) \cup {"id"} |->
        IF k = "id"
        THEN IF "_id" \in DOMAIN d THEN StrObjectId(d["_id"]) ELSE "None"
        ELSE d[k]]

\* if isinstance(d.get("_id"), ObjectId): d["id"] = str(d.pop("_id"))
NormalizeDoc(d) ==
    IF IsObjectId(Get(d, "_id"))
    THEN [k \in (DOMAIN d \ {"_id"}) \cup {"id"} |->
             IF k = "id" THEN StrObjectId(d["_id"]) ELSE d[k]]
    ELSE d

\* for d in docs: ...
NormalizeDocs(docs) == [i \in DOMAIN docs |-> NormalizeDoc(docs[i])]

\* The documents of the collection that clients created.
Created == {i \in DOMAIN store : store[i].title \notin {demo_items[k].title : k \in DOMAIN demo_items}}

\* POST /api/products
create_product(c) ==
    /\ pc[c] = "idle"
    /\ Cardinality(Created) < MaxCreated
    /\ \E product \in ProductCreate :
         LET req == [op |-> "create_product", product |-> product]
         IN  \/ /\ db # None
                /\ store' = create_document(product).store
                /\ Finish(req, <<>>, None,
                          Ok([id |-> create_document(product).inserted_id]))
             \/ \E e \in AccessorRaises :
                  /\ store' = store
                  /\ Finish(req, <<>>, e, ExceptHandler(e))
    /\ UNCHANGED <<db, pc, idx>>

\* Variant: the reshaped documents are written back to the collection.
list_products_in_place(c) ==
    /\ pc[c] = "idle"
    /\ \E category \in Categories, q \in Queries, limit \in Limits :
         LET req == [op |-> "list_products", category |-> category,
                     q |-> q, limit |-> limit]
             f == BuildFilter(category, q)
         IN  /\ db # None
             /\ FilterValid(f)
             /\ store' = [i \in DOMAIN store |->
                             IF MatchFilter(f, store[i])
                             THEN NormalizeDoc(store[i]) ELSE store[i]]
             /\ Finish(req, f, None,
                       Ok([items |-> NormalizeDocs(get_documents(f, limit))]))
    /\ UNCHANGED <<db, pc, idx>>

\* GET /api/products
list_products(c) ==
    /\ pc[c] = "idle"
    /\ \E category \in Categories, q \in Queries, limit \in Limits :
         LET req == [op |-> "list_products", category |-> category,
                     q |-> q, limit |-> limit]
             f == BuildFilter(category, q)
         IN  \/ /\ db # None
                /\ FilterValid(f)
                /\ Finish(req, f, None,
                          Ok([items |-> NormalizeDocs(get_documents(f, limit))]))
             \/ \E e \in get_documents_raises(f) :
                  Finish(req, f, e, ExceptHandler(e))
    /\ UNCHANGED <<db, store, pc, idx>>

SeedRequest == [op |-> "seed_products"]

\* Variant: the comparison turned round.
SeedSkipsNegative(count) == count < 0

\* Variant: seeding is skipped only once the dataset is complete.
SeedSkipsWhenComplete(count) == count >= Len(demo_items)

\* if count > 0: return "not seeded"
SeedSkips(count) == count > 0

\* The for loop over demo_items has run out after i insertions.
LoopDone(i) == i = Len(demo_items)

\* POST /api/seed, up to the loop: the count and the check of it.
seed_products_check(c) ==
    /\ pc[c] = "idle"
    /\ \/ \E e \in StoreErrors :
            /\ db # None
            /\ Finish(SeedRequest, <<>>, e, ExceptHandler(e))
            /\ UNCHANGED <<pc, idx>>
       \/ LET count == IF db # None THEN count_documents ELSE 0
          IN  IF SeedSkips(count)
              THEN /\ Finish(SeedRequest, <<>>, None,
                             Ok([seeded |-> FALSE,
                                 message |-> "Products already exist"]))
                   /\ UNCHANGED <<pc, idx>>
              ELSE /\ pc' = [pc EXCEPT ![c] = "seeding"]
                   /\ idx' = [idx EXCEPT ![c] = 0]
                   /\ UNCHANGED <<request, filter_dict, caught, response>>
    /\ UNCHANGED <<db, store>>

\* Variant: every turn of the loop looks at the collection again and gives
\* up when somebody else has inserted.
seed_products_insert_rechecks(c) ==
    /\ pc[c] = "seeding"
    /\ \/ /\ db # None
          /\ Len(store) = idx[c]
          /\ store' = create_document(demo_items[idx[c] + 1]).store
          /\ IF LoopDone(idx[c] + 1)
             THEN /\ pc' = [pc EXCEPT ![c] = "idle"]
                  /\ idx' = [idx EXCEPT ![c] = 0]
                  /\ Finish(SeedRequest, <<>>, None,
                            Ok([seeded |-> TRUE, count |-> Len(demo_items)]))
             ELSE /\ idx' = [idx EXCEPT ![c] = idx[c] + 1]
                  /\ UNCHANGED <<pc, request, filter_dict, caught, response>>
       \/ /\ db # None
          /\ Len(store) # idx[c]
          /\ pc' = [pc EXCEPT ![c] = "idle"]
          /\ idx' = [idx EXCEPT ![c] = 0]
          /\ store' = store
          /\ Finish(SeedRequest, <<>>, None,
                    Ok([seeded |-> FALSE, message |-> "Products already exist"]))
       \/ \E e \in AccessorRaises :
            /\ pc' = [pc EXCEPT ![c] = "idle"]
            /\ idx' = [idx EXCEPT ![c] = 0]
            /\ store' = store
            /\ Finish(SeedRequest, <<>>, e, ExceptHandler(e))
    /\ UNCHANGED db

\* POST /api/seed, one turn of the loop, and the return after the last.
seed_products_insert(c) ==
    /\ pc[c] = "seeding"
    /\ \/ /\ db # None
          /\ store' = create_document(demo_items[idx[c] + 1]).store
          /\ IF LoopDone(idx[c] + 1)
             THEN /\ pc' = [pc EXCEPT ![c] = "idle"]
                  /\ idx' = [idx EXCEPT ![c] = 0]
                  /\ Finish(SeedRequest, <<>>, None,
                            Ok([seeded |-> TRUE, count |-> Len(demo_items)]))
             ELSE /\ idx' = [idx EXCEPT ![c] = idx[c] + 1]
                  /\ UNCHANGED <<pc, request, filter_dict, caught, response>>
       \/ \E e \in AccessorRaises :
            /\ pc' = [pc EXCEPT ![c] = "idle"]
            /\ idx' = [idx EXCEPT ![c] = 0]
            /\ store' = store
            /\ Finish(SeedRequest, <<>>, e, ExceptHandler(e))
    /\ UNCHANGED db

(***************************************************************************)
(* Specifications.                                                         *)
(***************************************************************************)
NoRequest == [op |-> "none"]
NoResponse == [status |-> 0, body |-> <<>>]

Init ==
    /\ db \in {Database, None}
    /\ store = <<>>
    /\ pc = [c \in Clients |-> "idle"]
    /\ idx = [c \in Clients |-> 0]
    /\ request = NoRequest
    /\ filter_dict = <<>>
    /\ caught = None
    /\ response = NoResponse

\* No request is in progress.
AllIdle == \A c \in Clients : pc[c] = "idle"

\* Requests served one at a time: a request starts only when no other is
\* in progress.
Next ==
    \E c \in Clients :
        \/ AllIdle /\ create_product(c)
        \/ AllIdle /\ list_products(c)
        \/ AllIdle /\ seed_products_check(c)
        \/ seed_products_insert(c)

Spec == Init /\ [][Next]_vars

\* The writers overlapping freely: create_product and seed_products calls of
\* different clients interleave at every store call.  list_products is a
\* single read of the store and writes nothing; it takes no part in the race.
NextConcurrent ==
    \E c \in Clients :
        \/ create_product(c)
        \/ seed_products_check(c)
        \/ seed_products_insert(c)

SpecConcurrent == Init /\ [][NextConcurrent]_vars

\* Seed calls one after the other, with reads in between; nothing but
\* seed_products inserts.
NextSeq ==
    \E c \in Clients :
        \/ AllIdle /\ seed_products_check(c)
        \/ AllIdle /\ list_products(c)
        \/ seed_products_insert(c)

SpecSeq == Init /\ [][NextSeq]_vars

(***************************************************************************)
(* Properties.                                                             *)
(***************************************************************************)
\* The handler that returned last was list_products / seed_products.
Listed == request.op = "list_products"
Seeded == request.op = "seed_products"

\* list_products returned normally.
ListedOk == Listed /\ response.status = 200

SeededTrue == Ok([seeded |-> TRUE, count |-> 4])
SeededFalse == Ok([seeded |-> FALSE, message |-> "Products already exist"])

\* The collection after one complete seeding of an empty collection.
SeededDocs == [k \in 1..4 |-> Stored(demo_items[k], ObjectId(k))]

\* s is a prefix of t.
IsPrefix(s, t) == Len(s) <= Len(t) /\ \A i \in DOMAIN s : t[i] = s[i]

\* The store matches a document against a filter it accepts.
Matched(f, doc) == FilterValid(f) /\ MatchFilter(f, doc)

\* sub is a substring of text when the case of letters is ignored.
ContainsCI(sub, text) ==
    LET a == Chars(sub)
        b == Chars(text)
    IN  \E s \in 0..(Len(b) - Len(a)) :
            \A j \in 1..Len(a) : Lower(a[j]) = Lower(b[s + j])

\* The characters with a meaning of their own in a pattern.
RegexMeta == {".", "(", ")", "[", "]", "{", "}", "*", "+", "?", "^", "$", "|", "\\"}
Plain(s) == \A i \in DOMAIN Chars(s) : Chars(s)[i] \notin RegexMeta

\* The stored document a returned item was made from.
SourceOf(item) == {i \in DOMAIN store : StrObjectId(store[i]["_id"]) = item.id}

----------------------------------------------------------------------------
----------------------------------------------------------------------------
\* The next turn of c's seed loop inserts its record.
SeedInsertsNext(c) ==
    /\ seed_products_insert(c)
    /\ Len(store') = Len(store) + 1
    /\ store'[Len(store')].title = demo_items[idx[c] + 1].title

\* C2: the count check is not repeated and nothing guards the loop: a caller
\* that is past the check inserts its next demo record whatever the
\* collection holds by then, so inserts of other callers land between the
\* check and the loop and the demo records get duplicated.
C2_LoopUnguarded ==
    \A c \in Clients :
        (pc[c] = "seeding" /\ db # None) => ENABLED SeedInsertsNext(c)

\* C2 witness: two overlapping seed calls have both run to the end; the
\* collection holds 8 records, every demo record twice, and the last call
\* reported seeded=true.
C2_SeededTwice ==
    /\ AllIdle
    /\ Len(store) = 8
    /\ \A k \in DOMAIN demo_items :
         Cardinality({i \in DOMAIN store : store[i].title = demo_items[k].title}) = 2
    /\ response = SeededTrue

----------------------------------------------------------------------------
\* C3 as claimed: for every non-empty q and no category, the filter matches
\* a stored record iff q is a case-insensitive substring of its title or of
\* its description.
C3_AsClaimed ==
    (Listed /\ Truthy(request.q) /\ ~Truthy(request.category)) =>
        \A i \in DOMAIN store :
            Matched(filter_dict, store[i])
                <=> \/ ContainsCI(request.q[1], store[i].title)
                    \/ ContainsCI(request.q[1], store[i].description)

\* C3, amended: for every non-empty q free of pattern metacharacters and no
\* category, the filter matches a stored record iff q is a case-insensitive
\* substring of its title or of its description, and every returned item
\* comes from such a record.
C3_PlainTextSearch ==
    (Listed /\ Truthy(request.q) /\ ~Truthy(request.category)
            /\ Plain(request.q[1])) =>
        /\ \A i \in DOMAIN store :
             Matched(filter_dict, store[i])
                 <=> \/ ContainsCI(request.q[1], store[i].title)
                     \/ ContainsCI(request.q[1], store[i].description)
        /\ response.status = 200 =>
             \A n \in DOMAIN response.body.items :
                 \E i \in SourceOf(response.body.items[n]) :
                     \/ ContainsCI(request.q[1], store[i].title)
                     \/ ContainsCI(request.q[1], store[i].description)

\* C3 witness: q = "watch" returned "Smart Fitness Watch", whose title holds
\* the word with another case, and left another stored record out.
C3_WatchFound ==
    /\ ListedOk
    /\ request.q = Some("watch")
    /\ request.category = Absent
    /\ \E n \in DOMAIN response.body.items :
         response.body.items[n].title = "Smart Fitness Watch"
    /\ \E i \in DOMAIN store : ~Matched(filter_dict, store[i])

----------------------------------------------------------------------------
\* The text condition of the filter on one record.
TextMatch(q, doc) ==
    \/ RegexSearch(q, "i", doc.title)
    \/ RegexSearch(q, "i", doc.description)

\* C4: with category and q both non-empty, the records the filter matches
\* are those whose category equals the given one and that the text condition
\* on title or description matches; every returned item is one of them.
C4_CategoryAndText ==
    (Listed /\ Truthy(request.category) /\ Truthy(request.q)
            /\ FilterValid(filter_dict)) =>
        /\ DOMAIN filter_dict = {"category", "$or"}
        /\ \A i \in DOMAIN store :
             MatchFilter(filter_dict, store[i])
                 <=> /\ store[i].category = request.category[1]
                     /\ TextMatch(request.q[1], store[i])
        /\ response.status = 200 =>
             \A n \in DOMAIN response.body.items :
                 \E i \in SourceOf(response.body.items[n]) :
                     /\ store[i].category = request.category[1]
                     /\ TextMatch(request.q[1], store[i])

\* C4 witness: category=Electronics and q=watch returned the one record in
\* both sets, while the collection also holds a record of the category
\* alone and a record of the text alone.
C4_Intersection ==
    /\ ListedOk
    /\ request.category = Some("Electronics")
    /\ request.q = Some("watch")
    /\ Len(response.body.items) = 1
    /\ response.body.items[1].title = "GPS Watch Band"
    /\ \E i \in DOMAIN store :
         store[i].category = "Electronics" /\ ~TextMatch("watch", store[i])
    /\ \E i \in DOMAIN store :
         store[i].category # "Electronics" /\ TextMatch("watch", store[i])

----------------------------------------------------------------------------
\* C5: a non-empty category puts an exact equality condition on the category
\* field, which excludes every record of another category, one differing in
\* letter case included; an absent or empty category adds no condition; with
\* category and q both absent or empty the filter is empty and matches
\* every record.
C5_CategoryExact ==
    Listed =>
        /\ Truthy(request.category) =>
             /\ "category" \in DOMAIN filter_dict
             /\ filter_dict["category"] = ("$eq" :> request.category[1])
             /\ \A i \in DOMAIN store :
                  store[i].category # request.category[1]
                      => ~Matched(filter_dict, store[i])
             /\ ~Truthy(request.q) =>
                  \A i \in DOMAIN store :
                      Matched(filter_dict, store[i])
                          <=> store[i].category = request.category[1]
        /\ ~Truthy(request.category) => "category" \notin DOMAIN filter_dict
        /\ (~Truthy(request.category) /\ ~Truthy(request.q)) =>
             /\ DOMAIN filter_dict = {}
             /\ \A i \in DOMAIN store : Matched(filter_dict, store[i])

\* C5 witness: category=electronics returned nothing although the collection
\* holds a record of category "Electronics".
C5_CaseExcluded ==
    /\ ListedOk
    /\ request.category = Some("electronics")
    /\ request.q = Absent
    /\ response.body.items = <<>>
    /\ \E i \in DOMAIN store : store[i].category = "Electronics"

----------------------------------------------------------------------------
\* C6: every item list_products returns has no "_id" key and comes from a
\* stored record with an ObjectId: its id is that identifier's string form,
\* 24 characters long, and every other field is the record's, unchanged.
C6_IdAsString ==
    ListedOk =>
        \A n \in DOMAIN response.body.items :
            LET item == response.body.items[n]
            IN  /\ "_id" \notin DOMAIN item
                /\ "id" \in DOMAIN item
                /\ item.id \in STRING
                /\ Len(item.id) = 24
                /\ \E i \in DOMAIN store :
                     /\ IsObjectId(store[i]["_id"])
                     /\ item.id = StrObjectId(store[i]["_id"])
                     /\ DOMAIN item = (DOMAIN store[i] \ {"_id"}) \cup {"id"}
                     /\ \A k \in DOMAIN store[i] \ {"_id"} : item[k] = store[i][k]

\* C6 witness: the second stored record came back with its identifier as the
\* string "000000000000000000000002".
C6_SecondRecordReturned ==
    /\ ListedOk
    /\ \E n \in DOMAIN response.body.items :
         /\ response.body.items[n].id = "000000000000000000000002"
         /\ response.body.items[n].title = store[2].title
         /\ response.body.items[n].price = store[2].price

----------------------------------------------------------------------------
\* C7: normalising twice is normalising once, on the stored records and on
\* the items list_products returned.
C7_NormalizeIdempotent ==
    /\ NormalizeDocs(NormalizeDocs(store)) = NormalizeDocs(store)
    /\ ListedOk => NormalizeDocs(response.body.items) = response.body.items

\* C7 witness: list_products returned all of a seeded collection, normalised.
C7_NormalizedSeedReturned ==
    /\ ListedOk
    /\ Len(store) >= 4
    /\ response.body.items = NormalizeDocs(store)
    /\ \A n \in DOMAIN response.body.items :
         "_id" \notin DOMAIN response.body.items[n]

----------------------------------------------------------------------------
\* C8: a handler ends with HTTP 200 or with HTTP 500; it ends with 500
\* exactly when it caught an exception, and the detail is then that
\* exception's message; the step in which a store call raises writes
\* nothing and ends the handler, which does not call the store again.
C8_FailureIs500 ==
    /\ [](/\ response.status \in {0, 200, 500}
          /\ response.status = 0 <=> request = NoRequest
          /\ response.status = 500 <=> caught # None
          /\ caught # None =>
               /\ Len(caught.args) = 1
               /\ response.body = [detail |-> caught.args[1]])
    /\ [][(caught' # None /\ <<request, caught, response>>' # <<request, caught, response>>)
            => (store' = store /\ AllIdle')]_vars
    /\ [][\A c \in Clients :
            (pc[c] = "seeding" /\ pc'[c] = "idle")
                => \/ caught' # None /\ response'.status = 500 /\ store' = store
                   \/ caught' = None /\ response'.status = 200
                        /\ Len(store') = Len(store) + 1]_vars

\* C8 witness: the third insertion of a seed call failed and the call ended
\* with HTTP 500 and the exception's message.
C8_SeedFailed ==
    /\ Seeded
    /\ AllIdle
    /\ Len(store) = 2
    /\ caught \in StoreErrors
    /\ response = [status |-> 500, body |-> [detail |-> "connection refused"]]

----------------------------------------------------------------------------
\* C9: every step leaves the stored documents as they are and adds at most
\* one at the end; a list_products step leaves the collection unchanged.
C9_AppendOnly ==
    [][/\ IsPrefix(store, store')
       /\ Len(store') <= Len(store) + 1
       /\ (\E c \in Clients : list_products(c)) => store' = store]_vars

\* C9 witness: list_products returned reshaped items of a collection of five
\* records, which still hold their "_id".
C9_ListedFive ==
    /\ ListedOk
    /\ Len(store) = 5
    /\ Len(response.body.items) = 5
    /\ \A i \in DOMAIN store : IsObjectId(store[i]["_id"])

----------------------------------------------------------------------------
\* A seed call finds the collection partly seeded, and nothing in progress.
PartlySeeded == AllIdle /\ 1 <= Len(store) /\ Len(store) < 4

\* C10 as claimed: once a seed call failed after k records, 1 <= k < 4,
\* every later seed call returns seeded=false without inserting.
C10_AsClaimed ==
    [][\A c \in Clients :
         (PartlySeeded /\ seed_products_check(c))
             => (response' = SeededFalse /\ store' = store)]_vars

\* C10, amended: an insertion that fails after k records, 1 <= k < 4, leaves
\* the k records and ends the call with HTTP 500; every later seed call
\* that does not itself fail finds count > 0 and returns seeded=false, a
\* later call that fails returns HTTP 500, and none of them inserts or
\* enters the loop, so the dataset is never completed.
C10_PartialSeedStays ==
    /\ [][\A c \in Clients :
            (/\ pc[c] = "seeding" /\ 1 <= idx[c] /\ idx[c] < 4
             /\ pc'[c] = "idle" /\ Len(store') = Len(store))
                => /\ store' = store
                   /\ Len(store) = idx[c]
                   /\ response'.status = 500
                   /\ response'.body = [detail |-> StrException(caught')]]_vars
    /\ [][PartlySeeded => (store' = store /\ AllIdle')]_vars
    /\ [][\A c \in Clients :
            (PartlySeeded /\ seed_products_check(c))
                => \/ response' = SeededFalse /\ caught' = None
                   \/ response'.status = 500 /\ caught' \in StoreErrors]_vars

\* C10 witness: two records are left of a failed seeding and a later seed
\* call reported seeded=false.
C10_LeftAtTwo ==
    /\ AllIdle
    /\ Seeded
    /\ Len(store) = 2
    /\ response = SeededFalse
====
